---- MODULE Spec2Model ----
(***************************************************************************)
(* A model of crunchy's Intelligent Peer Sharing (IPS) module:             *)
(*   src/src/ips.rs              Ips::generate and its helpers             *)
(*   src/src/ips/graph_utils.rs  find_bridges, construct_graph,            *)
(*                               remove_node, filter_network               *)
(*                                                                         *)
(* Conventions.  Vectors are sequences (1-based in TLA+); the indices the  *)
(* program stores in them (agraph rows, connections, PeerEntry.index) keep *)
(* the program's 0-based values, and At(v, i) reads v[i] as the program    *)
(* does.  The f64 inputs (betweenness, closeness, eigenvector centrality,    *)
(* weights) are integers, and what is computed from them is an exact       *)
(* rational <<numerator, denominator>> with a positive denominator.        *)
(* The u32 values of a run (degrees, counts, configured changes) are the   *)
(* integers themselves: the runs drawn here stay far below u32::MAX, where *)
(* the saturating operations of the code are plain arithmetic.  A panic    *)
(* (unwrap/expect on None, index out of bounds) ends a run in              *)
(* pc = "panicked".                                                        *)
(***************************************************************************)
EXTENDS Integers, Sequences, FiniteSets, TLC

(***************************************************************************)
(* Bounds of the model.                                                    *)
(***************************************************************************)
\* largest snapshot the pipeline specification draws
MaxNodes == 3
\* largest change_at_least / change_no_more the pipeline specification draws
MaxChange == 2

VARIABLES
    \* ---- Ips::generate (src/src/ips.rs) ----
    state_nodes,    \* state.nodes: Vec<Node>
    agraph,         \* agraph: Vec<Vec<usize>>
    config,         \* self.config: IPSConfiguration
    engine,         \* what the centrality engine (spectre) answers, and
                    \* whether the build checks integer overflow
    pc,             \* position inside generate
    graph,          \* graph: set of undirected edges over addresses
    islands,        \* _islands
    degrees,        \* degrees: HashMap<IpAddr, u32>
    degree_avg,     \* degree_avg: f64
    eigenvalues,    \* eigenvalues: HashMap<IpAddr, f64>
    factors,        \* self.{degree,betweenness,closeness,eigenvector}_factors
    const_factors,  \* const_factors: Vec<PeerEntry>
    peer_list,      \* peer_list: Vec<Peer>
    iterations,     \* the locals of each finished iteration of the node loop
    \* ---- graph_utils (src/src/ips/graph_utils.rs) ----
    nodes_vec,      \* nodes: Vec<Node>
    call,           \* the last call made on nodes, with its arguments
    result          \* what that call returned

ips_vars == <<state_nodes, agraph, config, engine, pc, graph, islands, degrees,
              degree_avg, eigenvalues, factors, const_factors, peer_list,
              iterations>>

utils_vars == <<nodes_vec, call, result>>

vars == <<ips_vars, utils_vars>>

(***************************************************************************)
(* Vectors and exact rationals.                                            *)
(***************************************************************************)
At(v, i) == v[i + 1]

Indices(v) == 0 .. (Len(v) - 1)

Range(v) == {v[k] : k \in 1 .. Len(v)}

Contains(v, x) == \E k \in 1 .. Len(v) : v[k] = x

Min2(a, b) == IF a < b THEN a ELSE b

RECURSIVE SumOver(_, _)
SumOver(f, S) ==
    IF S = {} THEN 0
    ELSE LET x == CHOOSE y \in S : TRUE IN f[x] + SumOver(f, S \ {x})

\* A rational <<numerator, denominator>> stands for an f64 where the f64
\* arithmetic is exact or its rounding cannot change a result: the mean of the
\* degrees, which is only rounded to a whole number, and the median and the
\* threshold of graph_utils, whole numbers times halves and quarters.
Rat(n, d) == <<n, d>>

RatInt(n) == <<n, 1>>

RatMul(a, b) == <<a[1] * b[1], a[2] * b[2]>>

\* denominators are positive throughout
RatLess(a, b) == a[1] * b[2] < b[1] * a[2]

\* A u32 is kept at its width as <<high, low>>, two 16-bit halves; a sum or
\* product that leaves the u32 range has a high half of 2^16 or more.
Limb == 2 ^ 16

U32(n) == <<n \div Limb, n % Limb>>

\* the number a value with a small high half denotes
Small(w) == w[1] * Limb + w[2]

U32_MAX == <<Limb - 1, Limb - 1>>

WideNorm(high, low) == <<high + low \div Limb, low % Limb>>

WideAdd(a, b) == WideNorm(a[1] + b[1], a[2] + b[2])

\* a - b for a >= b
WideSub(a, b) ==
    IF a[2] >= b[2] THEN <<a[1] - b[1], a[2] - b[2]>>
    ELSE <<a[1] - b[1] - 1, a[2] + Limb - b[2]>>

WideLess(a, b) == a[1] < b[1] \/ (a[1] = b[1] /\ a[2] < b[2])

\* a * k and the whole part of a / k, for a small k
WideMulSmall(a, k) == WideNorm(a[1] * k, a[2] * k)

WideDivSmall(a, k) == <<a[1] \div k, ((a[1] % k) * Limb + a[2]) \div k>>

(***************************************************************************)
(* f64, the IEEE 754 binary64 numbers, with round-to-nearest-even.         *)
(*                                                                         *)
(* A finite f64 is <<sign, mant, exp>>, the number sign * mant * 2^exp:    *)
(* sign is -1, 0 or 1, and mant is a natural number of exactly             *)
(* F64_MANTISSA_DIGITS bits, written in limbs of 15 bits, the least        *)
(* significant limb first.  Zero is <<0, <<>>, 0>>; -0.0 compares equal to *)
(* 0.0 and is not told apart from it.  The values of the model are far     *)
(* from the subnormal and the overflow range.                              *)
(***************************************************************************)
F64_MANTISSA_DIGITS == 53

BigBase == 2 ^ 15

RECURSIVE BigTrim(_)
BigTrim(a) ==
    IF a = <<>> \/ a[Len(a)] # 0 THEN a
    ELSE BigTrim(SubSeq(a, 1, Len(a) - 1))

RECURSIVE BigFromInt(_)
BigFromInt(n) ==
    IF n = 0 THEN <<>> ELSE <<n % BigBase>> \o BigFromInt(n \div BigBase)

RECURSIVE BitsOf(_)
BitsOf(n) == IF n = 0 THEN 0 ELSE 1 + BitsOf(n \div 2)

BigBitLength(a) ==
    IF a = <<>> THEN 0 ELSE (Len(a) - 1) * 15 + BitsOf(a[Len(a)])

RECURSIVE BigAddCarry(_, _, _)
BigAddCarry(a, b, carry) ==
    IF a = <<>> /\ b = <<>> THEN (IF carry = 0 THEN <<>> ELSE <<carry>>)
    ELSE LET x == IF a = <<>> THEN 0 ELSE Head(a)
             y == IF b = <<>> THEN 0 ELSE Head(b)
             t == x + y + carry
         IN  <<t % BigBase>>
                 \o BigAddCarry(IF a = <<>> THEN <<>> ELSE Tail(a),
                                IF b = <<>> THEN <<>> ELSE Tail(b),
                                t \div BigBase)

BigAdd(a, b) == BigAddCarry(a, b, 0)

\* a - b - borrow for a >= b + borrow
RECURSIVE BigSubBorrow(_, _, _)
BigSubBorrow(a, b, borrow) ==
    IF a = <<>> THEN <<>>
    ELSE LET y == IF b = <<>> THEN 0 ELSE Head(b)
             t == Head(a) - y - borrow
         IN  <<t % BigBase>>
                 \o BigSubBorrow(Tail(a), IF b = <<>> THEN <<>> ELSE Tail(b),
                                 IF t < 0 THEN 1 ELSE 0)

BigSub(a, b) == BigTrim(BigSubBorrow(a, b, 0))

RECURSIVE BigLess(_, _)
BigLess(a, b) ==
    IF Len(a) # Len(b) THEN Len(a) < Len(b)
    ELSE IF a = <<>> THEN FALSE
    ELSE IF a[Len(a)] # b[Len(b)] THEN a[Len(a)] < b[Len(b)]
    ELSE BigLess(SubSeq(a, 1, Len(a) - 1), SubSeq(b, 1, Len(b) - 1))

\* a * k + carry for a limb k
RECURSIVE BigMulCarry(_, _, _)
BigMulCarry(a, k, carry) ==
    IF a = <<>> THEN (IF carry = 0 THEN <<>> ELSE <<carry>>)
    ELSE LET t == Head(a) * k + carry
         IN  <<t % BigBase>> \o BigMulCarry(Tail(a), k, t \div BigBase)

BigMulSmall(a, k) == BigTrim(BigMulCarry(a, k, 0))

\* low + high * BigBase
BigJoin(low, high) ==
    IF high = <<>> THEN low
    ELSE IF low = <<>> THEN <<0>> \o high
    ELSE BigAdd(low, <<0>> \o high)

RECURSIVE BigMul(_, _)
BigMul(a, b) ==
    IF a = <<>> \/ b = <<>> THEN <<>>
    ELSE BigJoin(BigMulSmall(a, Head(b)), BigMul(a, Tail(b)))

\* <<the limbs of the whole part of (rem * BigBase^Len(a) + a) / k, the
\* remainder>>, for 0 < k <= BigBase and rem < k
BigDivDigit(lower, digit) == <<lower[1] \o <<digit>>, lower[2]>>

RECURSIVE BigDivRem(_, _, _)
BigDivRem(a, k, rem) ==
    IF a = <<>> THEN <<<<>>, rem>>
    ELSE BigDivDigit(BigDivRem(SubSeq(a, 1, Len(a) - 1), k,
                               (rem * BigBase + a[Len(a)]) % k),
                     (rem * BigBase + a[Len(a)]) \div k)

BigDivTrim(qr) == <<BigTrim(qr[1]), qr[2]>>

\* <<the whole part of a / k, the remainder>>
BigDivSmall(a, k) == BigDivTrim(BigDivRem(a, k, 0))

RECURSIVE BigShiftLeft(_, _)
BigShiftLeft(a, n) ==
    IF a = <<>> \/ n = 0 THEN a
    ELSE IF n >= 15 THEN <<0>> \o BigShiftLeft(a, n - 15)
    ELSE BigMulSmall(a, 2 ^ n)

\* A right shift yields <<the bits kept, the last bit shifted out, whether a
\* bit below that one was set>>: first by whole limbs, then by n < 15 bits.
RECURSIVE BigDropLimbs(_, _, _, _)
BigDropLimbs(a, count, guard, sticky) ==
    IF count = 0 THEN <<a, guard, sticky>>
    ELSE BigDropLimbs(Tail(a), count - 1, Head(a) \div 2 ^ 14,
                      sticky \/ guard = 1 \/ Head(a) % 2 ^ 14 # 0)

BigCutBits(qr, n, guard, sticky) ==
    <<qr[1], qr[2] \div 2 ^ (n - 1),
      sticky \/ guard = 1 \/ qr[2] % 2 ^ (n - 1) # 0>>

BigDropBits(cut, n) ==
    IF n = 0 THEN cut
    ELSE BigCutBits(BigDivSmall(cut[1], 2 ^ n), n, cut[2], cut[3])

BigShiftRight(a, n, sticky) ==
    BigDropBits(BigDropLimbs(a, n \div 15, 0, sticky), n % 15)

F64_ZERO == <<0, <<>>, 0>>

\* the results of a division by zero; they take no part in the arithmetic
\* and the comparisons below
F64_NAN == <<0, <<>>, 1>>

F64_INFINITY == <<1, <<>>, 1>>

F64_NEG_INFINITY == <<-1, <<>>, 1>>

\* The f64 nearest to sign * (a + r) * 2^exp, for a natural number a and a
\* rest 0 <= r < 1 that is not zero exactly when inexact is set; with a rest
\* a has at least two bits more than the mantissa.  A tie goes to the even
\* mantissa.
\* a mantissa rounded up to 2^53 is 2^52 with the next exponent
F64Carry(sign, mant, exp) ==
    IF BigBitLength(mant) > F64_MANTISSA_DIGITS
    THEN <<sign, BigDivSmall(mant, 2)[1], exp + 1>>
    ELSE <<sign, mant, exp>>

F64RoundCut(sign, cut, exp) ==
    F64Carry(sign,
             IF cut[2] = 1 /\ (cut[3] \/ cut[1][1] % 2 = 1)
             THEN BigAdd(cut[1], <<1>>) ELSE cut[1],
             exp)

\* shift is the number of bits a has more than a mantissa
F64RoundBy(sign, a, exp, inexact, shift) ==
    IF shift <= 0 THEN <<sign, BigShiftLeft(a, -shift), exp + shift>>
    ELSE F64RoundCut(sign, BigShiftRight(a, shift, inexact), exp + shift)

F64Round(sign, a, exp, inexact) ==
    IF sign = 0 \/ a = <<>> THEN F64_ZERO
    ELSE F64RoundBy(sign, a, exp, inexact,
                    BigBitLength(a) - F64_MANTISSA_DIGITS)

Sign(n) == IF n < 0 THEN -1 ELSE IF n = 0 THEN 0 ELSE 1

Abs(n) == IF n < 0 THEN -n ELSE n

\* `n as f64` for a whole number n
F64FromInt(n) == F64Round(Sign(n), BigFromInt(Abs(n)), 0, FALSE)

F64Neg(x) == <<-x[1], x[2], x[3]>>

\* x * y
F64Mul(x, y) == F64Round(x[1] * y[1], BigMul(x[2], y[2]), x[3] + y[3], FALSE)

\* x + y
\* sx * a * 2^exp + sy * b * 2^exp for signs sx and sy that are not zero
F64AddAligned(sx, a, sy, b, exp) ==
    F64Round(IF sx = sy \/ BigLess(b, a) THEN sx ELSE sy,
             IF sx = sy THEN BigAdd(a, b)
             ELSE IF BigLess(a, b) THEN BigSub(b, a)
             ELSE BigSub(a, b),
             exp, FALSE)

F64Add(x, y) ==
    IF x[1] = 0 THEN y
    ELSE IF y[1] = 0 THEN x
    ELSE F64AddAligned(x[1], BigShiftLeft(x[2], x[3] - Min2(x[3], y[3])),
                       y[1], BigShiftLeft(y[2], y[3] - Min2(x[3], y[3])),
                       Min2(x[3], y[3]))

\* the quotient is inexact exactly when the division leaves a remainder
F64DivRound(sign, qr, exp) == F64Round(sign, qr[1], exp, qr[2] # 0)

\* the quotient is computed to two bits more than a mantissa
F64DivShifted(p, q, shift) ==
    F64DivRound(Sign(p),
                BigDivSmall(BigShiftLeft(BigFromInt(Abs(p)), shift), q),
                -shift)

\* p / q for f64 p and q that hold the whole numbers p and q, 0 <= q < 2^15
F64DivInt(p, q) ==
    IF q = 0
    THEN IF p = 0 THEN F64_NAN
         ELSE IF p < 0 THEN F64_NEG_INFINITY ELSE F64_INFINITY
    ELSE F64DivShifted(p, q, F64_MANTISSA_DIGITS + 2 + BitsOf(q))

\* |x| < |y|
F64MagnitudeLess(x, y) ==
    IF y[1] = 0 THEN FALSE
    ELSE IF x[1] = 0 THEN TRUE
    ELSE x[3] < y[3] \/ (x[3] = y[3] /\ BigLess(x[2], y[2]))

\* x < y
F64Less(x, y) ==
    IF x[1] # y[1] THEN x[1] < y[1]
    ELSE IF x[1] = 1 THEN F64MagnitudeLess(x, y)
    ELSE IF x[1] = -1 THEN F64MagnitudeLess(y, x)
    ELSE FALSE

\* Vec::sort_by is a stable sort.  The elements are keyed by an f64,
\* <<key, element>>,
\* and sorted by ascending key: x is placed before the first element whose
\* key is strictly greater, so elements with equal keys keep their order.
RECURSIVE InsertSorted(_, _)
InsertSorted(sorted, x) ==
    IF sorted = <<>> THEN <<x>>
    ELSE IF F64Less(x[1], Head(sorted)[1]) THEN <<x>> \o sorted
    ELSE <<Head(sorted)>> \o InsertSorted(Tail(sorted), x)

RECURSIVE StableSortKeyed(_)
StableSortKeyed(v) ==
    IF v = <<>> THEN <<>>
    ELSE InsertSorted(StableSortKeyed(SubSeq(v, 1, Len(v) - 1)), v[Len(v)])

\* the elements of a keyed sequence, sorted by key
StableSortBy(keyed) ==
    LET sorted == StableSortKeyed(keyed)
    IN  [k \in 1 .. Len(keyed) |-> sorted[k][2]]

\* Iterator::take
Take(v, n) == SubSeq(v, 1, Min2(n, Len(v)))

\* a u32 count as the number of elements taken from len elements
Clip(count, len) == IF WideLess(count, U32(len)) THEN Small(count) ELSE len

(***************************************************************************)
(* Constants of ips.rs.                                                    *)
(***************************************************************************)
\* ips.rs 60-63; the products 100.0 * 2.0 and 100.0 * 1.0 are exact, so each
\* constant is one rounded division of whole numbers
NORMALIZE_TO_VALUE == F64FromInt(100)

NORMALIZE_HALF == F64DivInt(100, 2)

NORMALIZE_2_3 == F64DivInt(100 * 2, 3)

NORMALIZE_1_3 == F64DivInt(100 * 1, 3)

(***************************************************************************)
(* The centrality engine (spectre::graph::Graph), an external dependency:  *)
(* the graph is a set of undirected edges, a vertex is an endpoint of an   *)
(* edge, the degree of a vertex is the number of its incident edges.  How  *)
(* a self-edge counts is the engine's business (engine.self_edge_degree),  *)
(* and the eigenvector centrality is whatever the engine answers for the   *)
(* vertices of the graph (engine.eigen).                                   *)
(***************************************************************************)
Edge(a, b) == {a, b}

Vertices(g) == UNION g

DegreeCentrality(g, self_edge_degree) ==
    [v \in Vertices(g) |->
        Cardinality({e \in g : v \in e /\ e # {v}})
        + (IF {v} \in g THEN self_edge_degree ELSE 0)]

EigenvalueCentrality(g, eigen) ==
    [v \in Vertices(g) |-> eigen[v]]

(***************************************************************************)
(* Ips helpers.                                                            *)
(***************************************************************************)
\* IpAddr::from_str(node.ip): addresses are unique and parse
IpOf(nodes, i) == At(nodes, i).ip

\* Ips::construct_graph, ips.rs 319-332: j runs over the positions of
\* agraph[i] and is used as the index of the second endpoint's node.
ConstructGraphEdges(nodes, ag) ==
    {Edge(IpOf(nodes, i), IpOf(nodes, j)) :
        <<i, j>> \in {p \in Indices(ag) \X Indices(nodes) :
                          p[2] \in Indices(At(ag, p[1]))}}

\* nodes[i] and nodes[j] are indexed in the body of the inner loop only, so a
\* row panics when it is not empty and either its own index or its length is
\* out of the bounds of nodes; an empty row is skipped whatever its index
ConstructGraphPanics(nodes, ag) ==
    \E i \in Indices(ag) :
        /\ Len(At(ag, i)) > 0
        /\ \/ i >= Len(nodes)
           \/ Len(At(ag, i)) > Len(nodes)

\* Ips::degree_centrality_avg, ips.rs 334-336; 0.0 / 0.0 is NaN
NaN == <<0, 0>>

DegreeCentralityAvg(degs) ==
    IF DOMAIN degs = {} THEN NaN
    ELSE Rat(SumOver(degs, DOMAIN degs), Cardinality(DOMAIN degs))

\* NormalizationFactors::determine, ips.rs 406-423; min_by(..).unwrap() and
\* max_by(..).unwrap() panic on an empty list
DeterminePanics(list) == list = <<>>

\* Iterator::min_by, ips.rs 410-413: the fold over the list from position k,
\* which keeps the earlier of two equal samples
RECURSIVE MinBy(_, _, _)
MinBy(list, k, acc) ==
    IF k > Len(list) THEN acc
    ELSE MinBy(list, k + 1, IF list[k] < acc THEN list[k] ELSE acc)

\* Iterator::max_by, ips.rs 414-417: keeps the later of two equal samples
RECURSIVE MaxBy(_, _, _)
MaxBy(list, k, acc) ==
    IF k > Len(list) THEN acc
    ELSE MaxBy(list, k + 1, IF list[k] >= acc THEN list[k] ELSE acc)

Determine(list) ==
    [min |-> MinBy(list, 2, list[1]),
     max |-> MaxBy(list, 2, list[1])]

\* variant: the division without the test of ips.rs 427-429
Scale_Unguarded(f, value) == F64DivInt(value - f.min, f.max - f.min)

\* NormalizationFactors::scale, ips.rs 426-432.  The samples are whole
\* numbers, so the two differences are exact and the quotient is the one
\* rounding.
Scale(f, value) ==
    IF f.min = f.max THEN F64_ZERO
    ELSE F64DivInt(value - f.min, f.max - f.min)

\* Ips::rate_node, ips.rs 338-365
RateNode(fs, weights, node, degree, eigenvalue) ==
    LET r0 == F64_ZERO
        r1 == F64Add(r0, F64Mul(F64Mul(Scale(fs.degree, degree),
                                       NORMALIZE_TO_VALUE),
                                F64FromInt(weights.degree)))
        r2 == F64Add(r1, F64Mul(F64Mul(Scale(fs.betweenness, node.betweenness),
                                       NORMALIZE_TO_VALUE),
                                F64FromInt(weights.betweenness)))
        r3 == F64Add(r2, F64Mul(F64Mul(Scale(fs.closeness, node.closeness),
                                       NORMALIZE_TO_VALUE),
                                F64FromInt(weights.closeness)))
        r4 == F64Add(r3, F64Mul(F64Mul(Scale(fs.eigenvector, eigenvalue),
                                       NORMALIZE_TO_VALUE),
                                F64FromInt(weights.eigenvector)))
    IN  r4

\* variant: the loop of ips.rs 392-396 stops one neighbour early
UnvisitedNeighbours_SkipLast(row, visited) ==
    SelectSeq(SubSeq(row, 1, Len(row) - 1), LAMBDA p : p \notin visited)

\* ips.rs 392-396: the neighbours pushed to the queue, those not yet visited
UnvisitedNeighbours(row, visited) ==
    SelectSeq(row, LAMBDA p : p \notin visited)

\* Ips::detect_islands, ips.rs 383-397: the while loop over the queue
RECURSIVE IslandBfs(_, _, _, _)
IslandBfs(ag, queue, visited, island) ==
    IF queue = <<>> THEN <<visited, island>>
    ELSE LET node_idx == Head(queue)
             rest     == Tail(queue)
         IN  IF node_idx \in visited
             THEN IslandBfs(ag, rest, visited, island)
             ELSE LET visited2 == visited \cup {node_idx}
                      pushed   == UnvisitedNeighbours(At(ag, node_idx),
                                                      visited2)
                  IN  IslandBfs(ag, rest \o pushed, visited2,
                                island \cup {node_idx})

\* Ips::detect_islands, ips.rs 370-401: the for loop over the start vertices
RECURSIVE IslandsFrom(_, _, _, _)
IslandsFrom(ag, i, visited, found) ==
    IF i >= Len(ag) THEN found
    ELSE IF i \in visited THEN IslandsFrom(ag, i + 1, visited, found)
    ELSE LET r == IslandBfs(ag, <<i>>, visited, {})
         IN  IslandsFrom(ag, i + 1, r[1], Append(found, r[2]))

\* variant: the loop over the start vertices begins at 1
detect_islands_FromOne(ag) == IslandsFrom(ag, 1, {}, <<>>)

detect_islands(ag) == IslandsFrom(ag, 0, {}, <<>>)

\* the external geodesic distance (Location::distance_to), in metres: the
\* model places the nodes on a line, at whole kilometres
\* (an Option is a sequence of at most one element)
NoLocation == <<>>

SomeLocation(x) == <<x>>

DistanceTo(a, b) == (IF a[1] < b[1] THEN b[1] - a[1] ELSE a[1] - b[1]) * 1000

\* Ips::update_rating_by_location, ips.rs 301-314: the rating of a distance
LocationRating(cfg, distance) ==
    LET minmax_distance_m == cfg.geolocation_minmax_distance_km * 1000
    IN  IF cfg.geolocation = "PreferCloser"
        THEN IF distance < minmax_distance_m THEN NORMALIZE_TO_VALUE
             ELSE IF distance < 2 * minmax_distance_m THEN NORMALIZE_2_3
             ELSE IF distance < 3 * minmax_distance_m THEN NORMALIZE_1_3
             ELSE F64_ZERO
        ELSE IF 2 * distance < minmax_distance_m THEN F64_ZERO
             ELSE IF distance < minmax_distance_m THEN NORMALIZE_HALF
             ELSE NORMALIZE_TO_VALUE

\* Ips::update_rating_by_location, ips.rs 269-317
update_rating_by_location(cfg, selected_node, nodes, ratings) ==
    IF selected_node.location = NoLocation THEN ratings
    ELSE [k \in 1 .. Len(ratings) |->
            IF nodes[k].location = NoLocation THEN ratings[k]
            ELSE [ratings[k] EXCEPT !.rating =
                    F64Add(@, F64Mul(LocationRating(cfg,
                                        DistanceTo(selected_node.location,
                                                   nodes[k].location)),
                                     F64FromInt(cfg.mcda_weights.location)))]]

(***************************************************************************)
(* The body of the node loop of Ips::generate, ips.rs 150-262.             *)
(***************************************************************************)
\* ips.rs 170-178: the list seeded with the current connections
SeedList(nodes, ag, node_idx) ==
    [k \in 1 .. Len(At(ag, node_idx)) |-> IpOf(nodes, At(ag, node_idx)[k])]

\* ips.rs 177: the ratings of the current peers
CurrPeerRatings(ag, node_idx, peer_ratings) ==
    [k \in 1 .. Len(At(ag, node_idx)) |-> At(peer_ratings, At(ag, node_idx)[k])]

\* ips.rs 188: ((degree_avg + degree as f64) / 2.0).round() as u32.  The
\* average is a fraction <<numerator, denominator>> with a u32-wide
\* numerator; round() rounds halves away from zero, and the cast to u32
\* saturates.
DesiredDegree(avg, degree) ==
    LET rounded == WideDivSmall(
                       WideAdd(WideAdd(avg[1], WideMulSmall(degree, avg[2])),
                               U32(avg[2])),
                       2 * avg[2])
    IN  IF WideLess(U32_MAX, rounded) THEN U32_MAX ELSE rounded

\* u32::saturating_sub
SaturatingSub(a, b) == IF WideLess(b, a) THEN WideSub(a, b) ELSE U32(0)

\* variant: the sum wraps around at 2^32
SaturatingAdd_Wrapping(a, b) ==
    LET sum == WideAdd(a, b) IN <<sum[1] % Limb, sum[2]>>

\* u32::saturating_add
SaturatingAdd(a, b) ==
    LET sum == WideAdd(a, b)
    IN  IF WideLess(U32_MAX, sum) THEN U32_MAX ELSE sum

\* ips.rs 191-198
PeersToDeleteCount(cfg, desired_degree, degree) ==
    IF WideLess(desired_degree, degree)
    THEN SaturatingSub(degree, desired_degree)
    ELSE cfg.change_at_least

\* ips.rs 202-208
PeersToAddCount(cfg, desired_degree, degree, peers_to_delete_count) ==
    IF WideLess(degree, desired_degree)
    THEN SaturatingAdd(SaturatingSub(desired_degree, degree),
                       peers_to_delete_count)
    ELSE cfg.change_at_least

\* variant: the limit of ips.rs 210-213 left out
LimitToAdd_Unlimited(cfg, peers_to_add_count) == peers_to_add_count

\* ips.rs 210-213
LimitToAdd(cfg, peers_to_add_count) ==
    IF WideLess(cfg.change_no_more, peers_to_add_count)
    THEN cfg.change_no_more
    ELSE peers_to_add_count

\* ips.rs 183-213: peers_to_add_count as the loop uses it
ToAdd(cfg, avg, degree) ==
    LET desired   == DesiredDegree(avg, degree)
        to_delete == PeersToDeleteCount(cfg, desired, degree)
    IN  LimitToAdd(cfg, PeersToAddCount(cfg, desired, degree, to_delete))

\* ips.rs 219: sort by rating, highest first
SortByRating(entries) ==
    StableSortBy([k \in 1 .. Len(entries) |->
                      <<F64Neg(entries[k].rating), entries[k]>>])

\* ips.rs 222-224: pop the last entry while the counter is positive
RECURSIVE PopVictims(_, _)
PopVictims(curr, count) ==
    IF WideLess(U32(0), count) /\ curr # <<>>
    THEN PopVictims(SubSeq(curr, 1, Len(curr) - 1), WideSub(count, U32(1)))
    ELSE curr

\* variant: the candidates keep the order of the pool
SortByBetweenness_Unsorted(nodes, entries) == entries

\* ips.rs 244-249: sort the candidates by betweenness, lowest first
SortByBetweenness(nodes, entries) ==
    StableSortBy([k \in 1 .. Len(entries) |->
                      <<F64FromInt(At(nodes, entries[k].index).betweenness),
                        entries[k]>>])

\* ips.rs 229-238: the candidates taken from the sorted, filtered ratings
CandidatePool(peer_ratings, list, take_count) ==
    LET retained == SelectSeq(SortByRating(peer_ratings),
                              LAMBDA x : ~Contains(list, x.ip))
    IN  Take(retained, Clip(take_count, Len(retained)))

\* ips.rs 236: peers_to_add_count * 2 is a u32 product.  Past u32::MAX it
\* panics in a build with overflow checks and wraps around in one without.
DoubleOverflows(peers_to_add_count) ==
    WideLess(U32_MAX, WideMulSmall(peers_to_add_count, 2))

Doubled(peers_to_add_count) ==
    LET product == WideMulSmall(peers_to_add_count, 2)
    IN  <<product[1] % Limb, product[2]>>

\* ips.rs 251-253: the addresses pushed to the list
AddedPeers(candidates, peers_to_add_count) ==
    [k \in 1 .. Clip(peers_to_add_count, Len(candidates)) |->
        candidates[k].ip]

\* one iteration of the loop: its locals, with the Peer it pushes
Iteration(nodes, ag, cfg, degs, avg, cfactors, node_idx, overflow_checks) ==
    LET node          == At(nodes, node_idx)
        located       == IF cfg.geolocation # "Off"
                         THEN update_rating_by_location(cfg, node, nodes, cfactors)
                         ELSE cfactors
        seeded        == SeedList(nodes, ag, node_idx)
        curr          == CurrPeerRatings(ag, node_idx, located)
        degree        == degs[node.ip]
        wide_avg      == <<U32(avg[1]), avg[2]>>
        desired       == DesiredDegree(wide_avg, U32(degree))
        to_delete     == PeersToDeleteCount(cfg, desired, U32(degree))
        to_add        == ToAdd(cfg, wide_avg, U32(degree))
        has_to_add    == WideLess(U32(0), to_add)
        peer_ratings  == SelectSeq(located, LAMBDA x : x.index # node_idx)
        kept          == PopVictims(SortByRating(curr), to_delete)
        pool          == IF has_to_add
                         THEN CandidatePool(peer_ratings, seeded,
                                            Doubled(to_add))
                         ELSE <<>>
        candidates    == SortByBetweenness(nodes, pool)
        added         == AddedPeers(candidates, to_add)
    IN  [node_idx |-> node_idx,
         panics |-> has_to_add /\ DoubleOverflows(to_add) /\ overflow_checks,
         degree |-> degree,
         desired_degree |-> desired,
         peers_to_delete_count |-> to_delete,
         peers_to_add_count |-> to_add,
         seeded |-> seeded,
         peer_ratings |-> peer_ratings,
         curr_peer_ratings |-> kept,
         pool |-> pool,
         candidates |-> candidates,
         added |-> added,
         peer |-> [ip |-> node.ip, list |-> seeded \o added]]

(***************************************************************************)
(* Inputs of the pipeline specification.                                   *)
(***************************************************************************)
\* the elements of a set of indices in ascending order
RECURSIVE Ascending(_)
Ascending(S) ==
    IF S = {} THEN <<>>
    ELSE LET m == CHOOSE x \in S : \A y \in S : x <= y
         IN  <<m>> \o Ascending(S \ {m})

\* every adjacency over n nodes: a row holds a set of indices in [0, n)
Adjacencies(n) == [1 .. n -> {Ascending(S) : S \in SUBSET (0 .. n - 1)}]

\* the address of the node at index i
AddrOf(i) == 10 + i

\* a value per node index, by pattern
Pattern(name, n, i) ==
    CASE name = "flat" -> 0
      [] name = "up"   -> i
      [] name = "down" -> n - 1 - i
      [] name = "alt"  -> i % 2

PatternLocation(name, n, i) ==
    CASE name = "nowhere" -> NoLocation
      [] name = "line"    -> SomeLocation(2 * i)
      [] name = "gaps"    -> IF i % 2 = 1 THEN NoLocation ELSE SomeLocation(i)

\* the node attributes and the configuration that rate the nodes
Profiles ==
    { [betweenness |-> "flat", closeness |-> "flat", eigen |-> "flat",
       location |-> "nowhere", geolocation |-> "Off", km |-> 1,
       weights |-> [degree |-> 0, betweenness |-> 0, closeness |-> 0,
                    eigenvector |-> 0, location |-> 0]],
      [betweenness |-> "up", closeness |-> "down", eigen |-> "flat",
       location |-> "line", geolocation |-> "Off", km |-> 1,
       weights |-> [degree |-> 1, betweenness |-> 1, closeness |-> 1,
                    eigenvector |-> 1, location |-> 1]],
      [betweenness |-> "down", closeness |-> "up", eigen |-> "up",
       location |-> "nowhere", geolocation |-> "Off", km |-> 1,
       weights |-> [degree |-> 0, betweenness |-> 0, closeness |-> 1,
                    eigenvector |-> 0, location |-> 0]],
      [betweenness |-> "alt", closeness |-> "flat", eigen |-> "down",
       location |-> "line", geolocation |-> "PreferCloser", km |-> 1,
       weights |-> [degree |-> 1, betweenness |-> 0, closeness |-> 0,
                    eigenvector |-> 1, location |-> 1]],
      [betweenness |-> "up", closeness |-> "alt", eigen |-> "flat",
       location |-> "gaps", geolocation |-> "PreferFarther", km |-> 3,
       weights |-> [degree |-> 0, betweenness |-> 1, closeness |-> 0,
                    eigenvector |-> 0, location |-> 2]],
      [betweenness |-> "flat", closeness |-> "up", eigen |-> "alt",
       location |-> "gaps", geolocation |-> "PreferCloser", km |-> 2,
       weights |-> [degree |-> 0, betweenness |-> 0, closeness |-> 1,
                    eigenvector |-> 0, location |-> 1]] }

SnapshotOf(n, prof) ==
    [k \in 1 .. n |->
        [ip          |-> AddrOf(k - 1),
         betweenness |-> Pattern(prof.betweenness, n, k - 1),
         closeness   |-> Pattern(prof.closeness, n, k - 1),
         location    |-> PatternLocation(prof.location, n, k - 1)]]

ConfigOf(prof, at_least, no_more) ==
    [mcda_weights |-> prof.weights,
     geolocation |-> prof.geolocation,
     geolocation_minmax_distance_km |-> prof.km,
     change_at_least |-> U32(at_least),
     change_no_more |-> U32(no_more)]

\* how the engine counts a self-edge in a degree
SelfEdgeDegrees == {1, 2}

N == Len(state_nodes)

\* graph_utils is not in use
UtilsIdle ==
    /\ nodes_vec = <<>>
    /\ call = [op |-> "none"]
    /\ result = <<>>

(***************************************************************************)
(* Ips::generate, ips.rs 87-264, step by step.                             *)
(***************************************************************************)
IpsInit ==
    /\ \E n \in 0 .. MaxNodes, prof \in Profiles :
        /\ state_nodes = SnapshotOf(n, prof)
        /\ agraph \in Adjacencies(n)
        /\ \E at_least \in 0 .. MaxChange, no_more \in 0 .. MaxChange :
              config = ConfigOf(prof, at_least, no_more)
        /\ \E sd \in SelfEdgeDegrees :
              engine = [self_edge_degree |-> sd,
                        eigen |-> [a \in {AddrOf(i) : i \in 0 .. n - 1} |->
                                      Pattern(prof.eigen, n, a - AddrOf(0))],
                        overflow_checks |-> FALSE]
    /\ pc = "start"
    /\ graph = {}
    /\ islands = <<>>
    /\ degrees = <<>>
    /\ degree_avg = NaN
    /\ eigenvalues = <<>>
    /\ factors = [degree |-> [min |-> 0, max |-> 0],
                  betweenness |-> [min |-> 0, max |-> 0],
                  closeness |-> [min |-> 0, max |-> 0],
                  eigenvector |-> [min |-> 0, max |-> 0]]
    /\ const_factors = <<>>
    /\ peer_list = <<>>
    /\ iterations = <<>>
    /\ UtilsIdle

\* ips.rs 95
ConstructGraph ==
    /\ pc = "start"
    /\ IF ConstructGraphPanics(state_nodes, agraph)
       THEN pc' = "panicked" /\ UNCHANGED graph
       ELSE pc' = "graph" /\ graph' = ConstructGraphEdges(state_nodes, agraph)
    /\ UNCHANGED <<state_nodes, agraph, config, engine, islands, degrees,
                   degree_avg, eigenvalues, factors, const_factors, peer_list,
                   iterations,
                   utils_vars>>

\* ips.rs 101
DetectIslands ==
    /\ pc = "graph"
    /\ pc' = "islands"
    /\ islands' = detect_islands(agraph)
    /\ UNCHANGED <<state_nodes, agraph, config, engine, graph, degrees,
                   degree_avg, eigenvalues, factors, const_factors, peer_list,
                   iterations,
                   utils_vars>>

\* ips.rs 104-106
QueryCentralities ==
    /\ pc = "islands"
    /\ pc' = "centralities"
    /\ degrees' = DegreeCentrality(graph, engine.self_edge_degree)
    /\ degree_avg' = DegreeCentralityAvg(degrees')
    /\ eigenvalues' = EigenvalueCentrality(graph, engine.eigen)
    /\ UNCHANGED <<state_nodes, agraph, config, engine, graph, islands,
                   factors, const_factors, peer_list, iterations,
                   utils_vars>>

\* the values of a map, as a vector (values().cloned().collect())
RECURSIVE ValuesOf(_, _)
ValuesOf(m, keys) ==
    IF keys = {} THEN <<>>
    ELSE LET k == CHOOSE x \in keys : \A y \in keys : x <= y
         IN  <<m[k]>> \o ValuesOf(m, keys \ {k})

\* ips.rs 111-129
DetermineFactors ==
    /\ pc = "centralities"
    /\ LET degree_list      == ValuesOf(degrees, DOMAIN degrees)
           eigen_list       == ValuesOf(eigenvalues, DOMAIN eigenvalues)
           betweenness_list == [k \in 1 .. N |-> state_nodes[k].betweenness]
           closeness_list   == [k \in 1 .. N |-> state_nodes[k].closeness]
       IN  IF \/ DeterminePanics(degree_list)
              \/ DeterminePanics(eigen_list)
              \/ DeterminePanics(betweenness_list)
              \/ DeterminePanics(closeness_list)
           THEN pc' = "panicked" /\ UNCHANGED factors
           ELSE /\ pc' = "factors"
                /\ factors' = [degree |-> Determine(degree_list),
                               eigenvector |-> Determine(eigen_list),
                               betweenness |-> Determine(betweenness_list),
                               closeness |-> Determine(closeness_list)]
    /\ UNCHANGED <<state_nodes, agraph, config, engine, graph, islands,
                   degrees, degree_avg, eigenvalues, const_factors, peer_list,
                   iterations,
                   utils_vars>>

\* ips.rs 135-147; expect(ERR_GET_DEGREE) and expect(ERR_GET_EIGENVECTOR)
\* panic for a node the maps have no entry for
RateNodes ==
    /\ pc = "factors"
    /\ IF \E i \in Indices(state_nodes) :
            \/ IpOf(state_nodes, i) \notin DOMAIN degrees
            \/ IpOf(state_nodes, i) \notin DOMAIN eigenvalues
       THEN pc' = "panicked" /\ UNCHANGED const_factors
       ELSE /\ pc' = "rated"
            /\ const_factors' =
                 [k \in 1 .. N |->
                    [ip     |-> state_nodes[k].ip,
                     index  |-> k - 1,
                     rating |-> RateNode(factors, config.mcda_weights,
                                         state_nodes[k],
                                         degrees[state_nodes[k].ip],
                                         eigenvalues[state_nodes[k].ip])]]
    /\ UNCHANGED <<state_nodes, agraph, config, engine, graph, islands,
                   degrees, degree_avg, eigenvalues, factors, peer_list,
                   iterations,
                   utils_vars>>

\* ips.rs 150-262, one iteration
NodeIteration ==
    /\ pc = "rated"
    /\ Len(peer_list) < N
    /\ LET it == Iteration(state_nodes, agraph, config, degrees, degree_avg,
                           const_factors, Len(peer_list),
                           engine.overflow_checks)
       IN  IF it.panics
           THEN pc' = "panicked" /\ UNCHANGED <<peer_list, iterations>>
           ELSE /\ pc' = pc
                /\ peer_list' = Append(peer_list, it.peer)
                /\ iterations' = Append(iterations, it)
    /\ UNCHANGED <<state_nodes, agraph, config, engine, graph, islands,
                   degrees, degree_avg, eigenvalues, factors, const_factors,
                   utils_vars>>

\* ips.rs 263
Return ==
    /\ pc = "rated"
    /\ Len(peer_list) = N
    /\ pc' = "done"
    /\ UNCHANGED <<state_nodes, agraph, config, engine, graph, islands,
                   degrees, degree_avg, eigenvalues, factors, const_factors,
                   peer_list, iterations,
                   utils_vars>>

IpsNext ==
    \/ ConstructGraph
    \/ DetectIslands
    \/ QueryCentralities
    \/ DetermineFactors
    \/ RateNodes
    \/ NodeIteration
    \/ Return

Init == IpsInit

Next == IpsNext

\* generate, run on every snapshot of at most MaxNodes nodes
Spec == Init /\ [][Next]_vars

(***************************************************************************)
(* Ips::generate on snapshots of SelectNodes nodes, where a node has more  *)
(* eligible candidates than its pool takes, and with change_at_least and   *)
(* change_no_more up to u32::MAX.                                          *)
(***************************************************************************)
\* the size of the snapshots the selection specification draws
SelectNodes == 4

\* every node has one connection: every node is an endpoint of an edge of
\* the reconstructed graph
SelectAdjacencies(n) == [1 .. n -> {<<j>> : j \in 0 .. n - 1}]

\* 2^31, the least u32 whose double is past u32::MAX
HalfRange == <<Limb \div 2, 0>>

\* two weighted factors that run against each other: the exact ratings are
\* 100 for every node of four, the f64 sums of the two inner nodes are
\* 33.33333333333333 + 66.66666666666666 = 99.99999999999999
RoundingProfile ==
    [betweenness |-> "up", closeness |-> "down", eigen |-> "flat",
     location |-> "nowhere", geolocation |-> "Off", km |-> 1,
     weights |-> [degree |-> 0, betweenness |-> 1, closeness |-> 1,
                  eigenvector |-> 0, location |-> 0]]

\* betweenness and closeness by pattern; the rating is the scaled closeness
\* or, with all weights zero, 0 for every node
SelectProfiles ==
    {RoundingProfile} \cup
    {[betweenness |-> b, closeness |-> cw[1], eigen |-> "flat",
      location |-> "nowhere", geolocation |-> "Off", km |-> 1,
      weights |-> [degree |-> 0, betweenness |-> 0, closeness |-> cw[2],
                   eigenvector |-> 0, location |-> 0]] :
        <<b, cw>> \in {"flat", "up", "down", "alt"}
                           \X {<<"flat", 0>>, <<"up", 1>>, <<"down", 1>>,
                                <<"alt", 1>>}}

SelectChanges ==
    {<<U32(1), U32(1)>>, <<U32(1), U32(3)>>, <<U32(2), U32(1)>>,
     <<U32(2), U32_MAX>>, <<U32(0), U32(2)>>,
     <<HalfRange, HalfRange>>, <<HalfRange, U32_MAX>>, <<U32_MAX, U32_MAX>>}

\* a build with overflow checks differs from one without only where
\* change_at_least is 2^31 or more
SelectInit ==
    /\ \E prof \in SelectProfiles, change \in SelectChanges :
        /\ state_nodes = SnapshotOf(SelectNodes, prof)
        /\ agraph \in SelectAdjacencies(SelectNodes)
        /\ config = [ConfigOf(prof, 0, 0) EXCEPT
                        !.change_at_least = change[1],
                        !.change_no_more = change[2]]
        /\ \E sd \in SelfEdgeDegrees,
              checks \in (IF DoubleOverflows(change[1]) THEN BOOLEAN
                          ELSE {FALSE}) :
              engine = [self_edge_degree |-> sd,
                        eigen |-> [a \in {AddrOf(i) : i \in 0 .. SelectNodes - 1}
                                      |-> 0],
                        overflow_checks |-> checks]
    /\ pc = "start"
    /\ graph = {}
    /\ islands = <<>>
    /\ degrees = <<>>
    /\ degree_avg = NaN
    /\ eigenvalues = <<>>
    /\ factors = [degree |-> [min |-> 0, max |-> 0],
                  betweenness |-> [min |-> 0, max |-> 0],
                  closeness |-> [min |-> 0, max |-> 0],
                  eigenvector |-> [min |-> 0, max |-> 0]]
    /\ const_factors = <<>>
    /\ peer_list = <<>>
    /\ iterations = <<>>
    /\ UtilsIdle

SelectNext == IpsNext

SpecSelect == SelectInit /\ [][SelectNext]_vars

\* the locals of generate before the pipeline has run
IpsBlank ==
    /\ state_nodes = <<>>
    /\ config = ConfigOf(CHOOSE p \in Profiles : p.location = "nowhere"
                                                 /\ p.closeness = "flat", 0, 0)
    /\ engine = [self_edge_degree |-> 1, eigen |-> <<>>,
                 overflow_checks |-> FALSE]
    /\ graph = {}
    /\ islands = <<>>
    /\ degrees = <<>>
    /\ degree_avg = NaN
    /\ eigenvalues = <<>>
    /\ factors = [degree |-> [min |-> 0, max |-> 0],
                  betweenness |-> [min |-> 0, max |-> 0],
                  closeness |-> [min |-> 0, max |-> 0],
                  eigenvector |-> [min |-> 0, max |-> 0]]
    /\ const_factors = <<>>
    /\ peer_list = <<>>
    /\ iterations = <<>>

\* the pipeline is not in use
IpsIdle ==
    /\ IpsBlank
    /\ agraph = <<>>
    /\ pc = "idle"

(***************************************************************************)
(* Ips::detect_islands called on its own, as the tests of ips.rs do.       *)
(***************************************************************************)
\* largest adjacency the islands specification draws
MaxIslandNodes == 3

\* the tests' 10 nodes (ips.rs 474, 513)
TestNodes == 10

\* ips.rs 486-499: each node is connected to all other nodes
CliqueAdjacency(n) ==
    [k \in 1 .. n |-> Ascending((0 .. n - 1) \ {k - 1})]

\* ips.rs 525-538: each node is connected only to itself
SelfAdjacency(n) == [k \in 1 .. n |-> <<k - 1>>]

IslandsInit ==
    /\ IpsBlank
    /\ UtilsIdle
    /\ pc = "graph"
    /\ \/ \E n \in 0 .. MaxIslandNodes : agraph \in Adjacencies(n)
       \/ agraph \in {CliqueAdjacency(TestNodes), SelfAdjacency(TestNodes)}

IslandsNext == DetectIslands

\* detect_islands, run on every adjacency of at most MaxIslandNodes rows and
\* on the two adjacencies of the tests
SpecIslands == IslandsInit /\ [][IslandsNext]_vars

(***************************************************************************)
(* graph_utils.rs.  A Node is [addr, connections, betweenness,             *)
(* network_type]; connections holds 0-based indices into the node list.    *)
(***************************************************************************)
\* crate::ips::statistics::median of a sorted list (the file is not among
\* the sources; the median is the middle value, and for an even count the
\* arithmetic mean of the two middle values)
median(sorted) ==
    LET n == Len(sorted)
    IN  IF n % 2 = 1 THEN RatInt(sorted[(n + 1) \div 2])
        ELSE Rat(sorted[n \div 2] + sorted[n \div 2 + 1], 2)

\* graph_utils.rs 39-44
BetweennessThreshold(ns, threshold_adjustment) ==
    LET betweenness_list ==
            StableSortBy([k \in 1 .. Len(ns) |->
                              <<F64FromInt(ns[k].betweenness), ns[k].betweenness>>])
    IN  RatMul(median(betweenness_list), threshold_adjustment)

\* HashMap entry(key).or_default().insert(x)
MapInsert(m, key, x) ==
    [k \in DOMAIN m \cup {key} |->
        (IF k \in DOMAIN m THEN m[k] ELSE {}) \cup (IF k = key THEN {x} ELSE {})]

\* variant: the edge is recorded under the node only, not under its peer
RecordBridge_OneWay(bridges, node_idx, peer_idx) ==
    MapInsert(bridges, node_idx, peer_idx)

\* graph_utils.rs 56-70: the edge is recorded under both endpoints
RecordBridge(bridges, node_idx, peer_idx) ==
    MapInsert(MapInsert(bridges, node_idx, peer_idx), peer_idx, node_idx)

\* graph_utils.rs 51-71: the loop over the connections of a node, from
\* position k
RECURSIVE BridgesOfNode(_, _, _, _, _)
BridgesOfNode(ns, threshold, node_idx, k, bridges) ==
    IF k > Len(At(ns, node_idx).connections) THEN bridges
    ELSE LET peer_idx == At(ns, node_idx).connections[k]
         IN  IF ~RatLess(threshold, RatInt(At(ns, peer_idx).betweenness))
             THEN BridgesOfNode(ns, threshold, node_idx, k + 1, bridges)
             ELSE BridgesOfNode(ns, threshold, node_idx, k + 1,
                                RecordBridge(bridges, node_idx, peer_idx))

\* graph_utils.rs 46-72: the loop over the nodes, from node_idx
RECURSIVE BridgesFrom(_, _, _, _)
BridgesFrom(ns, threshold, node_idx, bridges) ==
    IF node_idx >= Len(ns) THEN bridges
    ELSE IF RatLess(RatInt(At(ns, node_idx).betweenness), threshold)
    THEN BridgesFrom(ns, threshold, node_idx + 1, bridges)
    ELSE BridgesFrom(ns, threshold, node_idx + 1,
                     BridgesOfNode(ns, threshold, node_idx, 1, bridges))

\* graph_utils.rs 31-74; the map is a function from its keys to sets
find_bridges(ns, threshold_adjustment) ==
    IF Len(ns) < 2 THEN <<>>
    ELSE BridgesFrom(ns, BetweennessThreshold(ns, threshold_adjustment),
                     0, <<>>)

\* graph_utils.rs 81-111: the edges inserted for one node; a connection
\* past the end of the list is reported and skipped
NodeEdges(ns, node) ==
    IF node.connections = <<>> THEN {Edge(node.addr, node.addr)}
    ELSE {Edge(node.addr, At(ns, i).addr) :
              i \in {c \in Range(node.connections) : c < Len(ns)}}

\* graph_utils.rs 78-114
construct_graph(ns) ==
    UNION {NodeEdges(ns, ns[k]) : k \in 1 .. Len(ns)}

\* Vec::remove at the first position holding x, if any
RECURSIVE RemoveFirst(_, _)
RemoveFirst(v, x) ==
    IF v = <<>> THEN <<>>
    ELSE IF Head(v) = x THEN Tail(v)
    ELSE <<Head(v)>> \o RemoveFirst(Tail(v), x)

\* graph_utils.rs 117-137
remove_node(ns, node_idx) ==
    LET node     == At(ns, node_idx)
        unlinked == [k \in 1 .. Len(ns) |->
                        [ns[k] EXCEPT !.connections = RemoveFirst(@, node_idx)]]
        retained == SelectSeq(unlinked, LAMBDA x : x.addr # node.addr)
    IN  [k \in 1 .. Len(retained) |->
            [retained[k] EXCEPT !.connections =
                [c \in 1 .. Len(@) |->
                    IF @[c] > node_idx THEN @[c] - 1 ELSE @[c]]]]

\* graph_utils.rs 160-165: the indices of the nodes of another network, from
\* idx downwards (the loop runs over the indices in reverse)
RECURSIVE IndicesToRemove(_, _, _)
IndicesToRemove(ns, network, idx) ==
    IF idx < 0 THEN <<>>
    ELSE (IF At(ns, idx).network_type # network THEN <<idx>> ELSE <<>>)
             \o IndicesToRemove(ns, network, idx - 1)

\* graph_utils.rs 167-169: remove_node for every collected index, in order.
\* The indices come highest first and the addresses are unique, so each
\* index is within the list when its turn comes.
RECURSIVE RemoveEach(_, _)
RemoveEach(ns, indices_to_remove) ==
    IF indices_to_remove = <<>> THEN ns
    ELSE RemoveEach(remove_node(ns, Head(indices_to_remove)),
                    Tail(indices_to_remove))

\* graph_utils.rs 156-173
filter_network(ns, network) ==
    RemoveEach(ns, IndicesToRemove(ns, network, Len(ns) - 1))

\* the address of the node that starts at index i
SocketAddrOf(i) == 20 + i

(***************************************************************************)
(* find_bridges on every small node list.                                  *)
(***************************************************************************)
\* largest node list the bridges specification draws
MaxBridgeNodes == 3

\* the betweenness values the bridges specification draws
BetweennessValues == {0, 1, 2}

\* threshold_adjustment: below, at and above 1
Adjustments == {Rat(1, 2), Rat(1, 1), Rat(5, 4)}

\* connections to other nodes, in one direction or both
PeerRows(n) ==
    [1 .. n -> {Ascending(S) : S \in SUBSET (0 .. n - 1)}]

\* graph_utils.rs 234-283: the node list of find_bridges_test, with the
\* betweenness values in tenths
BridgesTestBetweenness == <<10, 15, 13, 31, 32, 10, 12, 14>>

BridgesTestConnections ==
    <<<<1, 2>>, <<0, 2, 3>>, <<1, 3>>, <<1, 2, 4>>, <<3, 5, 7>>, <<4, 6>>,
      <<5, 7>>, <<4, 6>>>>

BridgesTestNodes ==
    [k \in 1 .. Len(BridgesTestConnections) |->
        [addr |-> SocketAddrOf(k - 1),
         connections |-> BridgesTestConnections[k],
         betweenness |-> BridgesTestBetweenness[k],
         network_type |-> "Unknown"]]

BridgesInit ==
    /\ IpsIdle
    /\ call = [op |-> "none"]
    /\ result = <<>>
    /\ \/ \E n \in 0 .. MaxBridgeNodes :
            \E rows \in PeerRows(n), bs \in [1 .. n -> BetweennessValues] :
               /\ \A k \in 1 .. n : ~Contains(rows[k], k - 1)
               /\ nodes_vec = [k \in 1 .. n |->
                                 [addr |-> SocketAddrOf(k - 1),
                                  connections |-> rows[k],
                                  betweenness |-> bs[k],
                                  network_type |-> "Unknown"]]
       \/ nodes_vec = BridgesTestNodes

FindBridges ==
    /\ call.op = "none"
    /\ \E adjustment \in Adjustments :
          /\ call' = [op |-> "find_bridges", threshold_adjustment |-> adjustment]
          /\ result' = find_bridges(nodes_vec, adjustment)
    /\ UNCHANGED <<nodes_vec, ips_vars>>

BridgesNext == FindBridges

SpecBridges == BridgesInit /\ [][BridgesNext]_vars

(***************************************************************************)
(* remove_node on every small node list, again and again.                  *)
(***************************************************************************)
\* largest node list the removal specification draws
MaxRemoveNodes == 3

\* the lengths of the connections vectors the removal specification draws
ConnectionLengths == {0, 1, 2}

\* connections are vectors of in-range indices, repeats included
ConnectionVectors(n) ==
    UNION {[1 .. l -> 0 .. n - 1] : l \in ConnectionLengths}

RemoveInit ==
    /\ IpsIdle
    /\ call = [op |-> "none"]
    /\ result = <<>>
    /\ \E n \in 0 .. MaxRemoveNodes :
          \E rows \in [1 .. n -> ConnectionVectors(n)] :
             nodes_vec = [k \in 1 .. n |->
                            [addr |-> SocketAddrOf(k - 1),
                             connections |-> rows[k],
                             betweenness |-> 0,
                             network_type |-> "Unknown"]]

\* remove_node(&mut nodes, node_idx); call.before is the list it was given
RemoveNode ==
    /\ \E node_idx \in Indices(nodes_vec) :
          /\ call' = [op |-> "remove_node", node_idx |-> node_idx,
                      before |-> nodes_vec]
          /\ nodes_vec' = remove_node(nodes_vec, node_idx)
    /\ UNCHANGED <<result, ips_vars>>

RemoveNext == RemoveNode

SpecRemove == RemoveInit /\ [][RemoveNext]_vars

(***************************************************************************)
(* filter_network on every small node list and on the list of its test.    *)
(***************************************************************************)
\* largest node list the filter specification draws
MaxFilterNodes == 3

\* ziggurat_core_crawler::summary::NetworkType, the values the tests use
NetworkTypes == {"Zcash", "Unknown", "Ripple"}

\* graph_utils.rs 294-342: the node list of filter_network_test
FilterTestConnections ==
    <<<<1, 2>>, <<0, 2, 3>>, <<1, 3>>, <<1, 2, 4>>, <<3, 5, 7>>, <<4, 6>>,
      <<5, 7>>, <<4, 6>>>>

FilterTestNetworks ==
    <<"Zcash", "Zcash", "Unknown", "Unknown", "Unknown", "Unknown", "Zcash",
      "Unknown">>

FilterTestNodes ==
    [k \in 1 .. Len(FilterTestConnections) |->
        [addr |-> SocketAddrOf(k),
         connections |-> FilterTestConnections[k],
         betweenness |-> 0,
         network_type |-> FilterTestNetworks[k]]]

FilterInit ==
    /\ IpsIdle
    /\ call = [op |-> "none"]
    /\ result = <<>>
    /\ \/ \E n \in 0 .. MaxFilterNodes :
            \E rows \in [1 .. n -> ConnectionVectors(n)],
               nets \in [1 .. n -> {"Zcash", "Unknown"}] :
               nodes_vec = [k \in 1 .. n |->
                              [addr |-> SocketAddrOf(k - 1),
                               connections |-> rows[k],
                               betweenness |-> 0,
                               network_type |-> nets[k]]]
       \/ nodes_vec = FilterTestNodes

\* filter_network(&nodes, network): the list is borrowed, the result is new
FilterNetwork ==
    /\ call.op = "none"
    /\ \E network \in NetworkTypes :
          /\ call' = [op |-> "filter_network", network |-> network]
          /\ result' = filter_network(nodes_vec, network)
    /\ UNCHANGED <<nodes_vec, ips_vars>>

FilterNext == FilterNetwork

SpecFilter == FilterInit /\ [][FilterNext]_vars

(***************************************************************************)
(* NormalizationFactors::determine and scale on every small sample list.   *)
(***************************************************************************)
\* longest sample list the normalization specification draws
MaxSamples == 3

\* the samples and the values to scale
SampleValues == -2 .. 3

\* ips.rs 443: the list of normalization_factors_determine_test
DetermineTestList == <<1, 2, 3, 4, 5>>

SampleLists ==
    UNION {[1 .. l -> SampleValues] : l \in 1 .. MaxSamples}
        \cup {DetermineTestList}

NormalizeInit ==
    /\ IpsIdle
    /\ nodes_vec = <<>>
    /\ result = <<>>
    /\ \E list \in SampleLists : call = [op |-> "none", list |-> list]

\* NormalizationFactors::determine(&list)
DetermineOf ==
    /\ call.op = "none"
    /\ call' = [op |-> "determine", list |-> call.list]
    /\ result' = Determine(call.list)
    /\ UNCHANGED <<nodes_vec, ips_vars>>

\* factors.scale(value), with the factors determine returned
ScaleOf ==
    /\ call.op = "determine"
    /\ \E value \in SampleValues :
          /\ call' = [op |-> "scale", list |-> call.list, factors |-> result,
                      value |-> value]
          /\ result' = Scale(result, value)
    /\ UNCHANGED <<nodes_vec, ips_vars>>

NormalizeNext == DetermineOf \/ ScaleOf

SpecNormalize == NormalizeInit /\ [][NormalizeNext]_vars

(***************************************************************************)
(* graph_utils::construct_graph on every small node list, connections past *)
(* the end of the list included.                                           *)
(***************************************************************************)
\* largest node list the reconstruction specification draws
MaxGraphNodes == 3

\* connections are vectors of indices, of which n is past the end
LooseConnectionVectors(n) ==
    UNION {[1 .. l -> 0 .. n] : l \in ConnectionLengths}

GraphInit ==
    /\ IpsIdle
    /\ call = [op |-> "none"]
    /\ result = {}
    /\ \E n \in 0 .. MaxGraphNodes :
          \E rows \in [1 .. n -> LooseConnectionVectors(n)] :
             nodes_vec = [k \in 1 .. n |->
                            [addr |-> SocketAddrOf(k - 1),
                             connections |-> rows[k],
                             betweenness |-> 0,
                             network_type |-> "Unknown"]]

\* construct_graph(&nodes)
ConstructGraphOf ==
    /\ call.op = "none"
    /\ call' = [op |-> "construct_graph"]
    /\ result' = construct_graph(nodes_vec)
    /\ UNCHANGED <<nodes_vec, ips_vars>>

GraphNext == ConstructGraphOf

SpecGraph == GraphInit /\ [][GraphNext]_vars

(***************************************************************************)
(* Steps 2-3 of the node loop (ips.rs 183-213) on degrees, averages and    *)
(* configuration values at both ends of the u32 range.                     *)
(***************************************************************************)
\* 0, 1, 2, 2^31 - 1, 2^31, u32::MAX - 1 and u32::MAX
ChangeValues ==
    {U32(0), U32(1), U32(2), <<Limb \div 2 - 1, Limb - 1>>, <<Limb \div 2, 0>>,
     <<Limb - 1, Limb - 2>>, U32_MAX}

\* the average degree as a fraction: whole numbers and halves
ChangeDenominators == {1, 2}

ChangeInit ==
    /\ IpsIdle
    /\ nodes_vec = <<>>
    /\ result = <<>>
    /\ \E degree \in ChangeValues, numerator \in ChangeValues,
          denominator \in ChangeDenominators,
          at_least \in ChangeValues, no_more \in ChangeValues :
          call = [op |-> "none",
                  degree |-> degree,
                  degree_avg |-> <<numerator, denominator>>,
                  cfg |-> [change_at_least |-> at_least,
                           change_no_more |-> no_more]]

\* ips.rs 188-213 for one node
ChangeCounts ==
    /\ call.op = "none"
    /\ call' = [call EXCEPT !.op = "change_counts"]
    /\ result' =
          LET desired_degree == DesiredDegree(call.degree_avg, call.degree)
              peers_to_delete_count ==
                  PeersToDeleteCount(call.cfg, desired_degree, call.degree)
          IN  [desired_degree |-> desired_degree,
               peers_to_delete_count |-> peers_to_delete_count,
               peers_to_add_count |->
                   LimitToAdd(call.cfg,
                              PeersToAddCount(call.cfg, desired_degree,
                                              call.degree,
                                              peers_to_delete_count))]
    /\ UNCHANGED <<nodes_vec, ips_vars>>

ChangeNext == ChangeCounts

SpecChange == ChangeInit /\ [][ChangeNext]_vars

(***************************************************************************)
(* Claims about Ips::generate, checked under Spec.                         *)
(***************************************************************************)
Terminal == pc \in {"done", "panicked"}

\* the edges the adjacency describes: one per (i, j) with j in agraph[i]
AdjacencyEdges(nodes, ag) ==
    {Edge(IpOf(nodes, i), IpOf(nodes, j)) :
        <<i, j>> \in {p \in Indices(ag) \X Indices(nodes) :
                          Contains(At(ag, p[1]), p[2])}}

\* C1 (as claimed): once the graph is reconstructed, it has an edge between
\* nodes[i] and nodes[j] exactly when j is an element of agraph[i].
C1_GraphFollowsAdjacency ==
    pc \notin {"start", "panicked"} =>
        graph = AdjacencyEdges(state_nodes, agraph)

\* C2 (as claimed): no output peer list contains its node's own address.
C2_NoSelfInPeerList ==
    \A k \in 1 .. Len(peer_list) :
        ~Contains(peer_list[k].list, peer_list[k].ip)

\* The candidates appended by an iteration never include the node itself
\* (the part of C2 that the code keeps).
AppendedExcludeSelf ==
    \A k \in 1 .. Len(iterations) :
        ~Contains(iterations[k].added, iterations[k].peer.ip)

\* C3 (as claimed): the victims are removed from the output: the seeded
\* addresses left in a node's output list are those of the current peers
\* that survive victim selection, |agraph[u]| - min(to_delete, |agraph[u]|)
\* of them.
C3_VictimsRemovedFromOutput ==
    \A k \in 1 .. Len(iterations) :
        LET it   == iterations[k]
            left == {a \in Range(it.seeded) : Contains(it.peer.list, a)}
        IN  /\ left = {e.ip : e \in Range(it.curr_peer_ratings)}
            /\ Cardinality(left) =
                 Len(it.seeded) - Clip(it.peers_to_delete_count, Len(it.seeded))

\* C4: the output list of a node is no longer than its degree in the
\* reconstructed graph plus change_no_more.
C4_OutputLengthBound ==
    \A k \in 1 .. Len(peer_list) :
        Len(peer_list[k].list) <=
            degrees[peer_list[k].ip] + Small(config.change_no_more)

\* C4's case: generate returned, and some node received as many additions
\* as change_no_more allows on top of a list as long as its degree.
C4_Witness ==
    /\ pc = "done"
    /\ Small(config.change_no_more) > 0
    /\ \E k \in 1 .. Len(iterations) :
          /\ Len(iterations[k].added) = Small(config.change_no_more)
          /\ Len(iterations[k].seeded) = iterations[k].degree
          /\ Len(peer_list[k].list) =
               degrees[peer_list[k].ip] + Small(config.change_no_more)

\* C5 (as claimed): generate on an empty snapshot ends by returning an empty
\* peer list.
C5_EmptySnapshotReturnsEmpty ==
    (N = 0 /\ Terminal) => (pc = "done" /\ peer_list = <<>>)

\* C6 (as claimed): generate on a snapshot of at least one node never
\* panics.
C6_GenerateNeverPanics ==
    N >= 1 => pc # "panicked"

(***************************************************************************)
(* Claims about Ips::detect_islands, checked under SpecIslands.            *)
(***************************************************************************)
IsPartition(parts, n) ==
    /\ \A k \in 1 .. Len(parts) : parts[k] # {} /\ parts[k] \subseteq 0 .. n - 1
    /\ \A i \in 0 .. n - 1 :
          Cardinality({k \in 1 .. Len(parts) : i \in parts[k]}) = 1

Symmetric(ag) ==
    \A i \in Indices(ag) : \A j \in Range(At(ag, i)) : Contains(At(ag, j), i)

ClosedUnderAdjacency(parts, ag) ==
    \A k \in 1 .. Len(parts) : \A i \in parts[k] :
        \A j \in Range(At(ag, i)) : j \in parts[k]

\* the indices connected to those of S, following rows in either direction
RECURSIVE Connected(_, _)
Connected(ag, S) ==
    LET more == S \cup {j \in Indices(ag) :
                          \E i \in S : \/ Contains(At(ag, i), j)
                                       \/ Contains(At(ag, j), i)}
    IN  IF more = S THEN S ELSE Connected(ag, more)

Components(ag) == {Connected(ag, {i}) : i \in Indices(ag)}

\* C7: detect_islands returns a partition of [0, N): the islands are not
\* empty, and every index is in exactly one of them.
C7_IslandsPartition ==
    pc = "islands" => IsPartition(islands, Len(agraph))

\* C7's case: detect_islands returned several islands, one of them with more
\* than one node, for an adjacency that is not symmetric.
C7_Witness ==
    /\ pc = "islands"
    /\ ~Symmetric(agraph)
    /\ Len(islands) >= 2
    /\ \E k \in 1 .. Len(islands) : Cardinality(islands[k]) >= 2

\* C8 (as claimed): every island is closed under adjacency, whether the
\* adjacency is symmetric or not.
C8_IslandsClosed ==
    pc = "islands" => ClosedUnderAdjacency(islands, agraph)

\* C8 (amended): for a symmetric adjacency every island is closed under
\* adjacency, and the islands are the connected components.
C8_IslandsClosedIfSymmetric ==
    (pc = "islands" /\ Symmetric(agraph)) =>
        /\ ClosedUnderAdjacency(islands, agraph)
        /\ Range(islands) = Components(agraph)
        /\ Len(islands) = Cardinality(Components(agraph))

\* C8's case: the complete graph on the tests' 10 nodes is one island.
C8_Witness ==
    /\ pc = "islands"
    /\ agraph = CliqueAdjacency(TestNodes)
    /\ Symmetric(agraph)
    /\ Len(islands) = 1

\* The other test of ips.rs: 10 nodes with only self-edges are 10 islands.
SelfEdgeIslandsReached ==
    /\ pc = "islands"
    /\ agraph = SelfAdjacency(TestNodes)
    /\ Len(islands) = TestNodes

(***************************************************************************)
(* Claims about find_bridges, checked under SpecBridges.                   *)
(***************************************************************************)
\* bridges[u], empty when the map has no entry for u
BridgesOf(bridges, u) == IF u \in DOMAIN bridges THEN bridges[u] ELSE {}

\* C9: the map find_bridges returns is symmetric, and empty for fewer than
\* 2 nodes.
C9_BridgesSymmetric ==
    call.op = "find_bridges" =>
        /\ \A u \in Indices(nodes_vec) : \A v \in Indices(nodes_vec) :
              v \in BridgesOf(result, u) <=> u \in BridgesOf(result, v)
        /\ DOMAIN result \subseteq Indices(nodes_vec)
        /\ Len(nodes_vec) < 2 => DOMAIN result = {}

\* C9's case: a connection that only one of its two nodes lists is recorded
\* as a bridge, under both of them.
C9_Witness ==
    /\ call.op = "find_bridges"
    /\ \E u \in Indices(nodes_vec) : \E v \in Indices(nodes_vec) :
          /\ Contains(At(nodes_vec, u).connections, v)
          /\ ~Contains(At(nodes_vec, v).connections, u)
          /\ v \in BridgesOf(result, u)
          /\ u \in BridgesOf(result, v)

(***************************************************************************)
(* Claims about remove_node, checked under SpecRemove.                     *)
(***************************************************************************)
InRange(ns) ==
    \A k \in 1 .. Len(ns) : \A c \in Range(ns[k].connections) : c \in Indices(ns)

UniqueAddrs(ns) ==
    \A a \in 1 .. Len(ns) : \A b \in 1 .. Len(ns) :
        ns[a].addr = ns[b].addr => a = b

NoRepeats(ns) ==
    \A k \in 1 .. Len(ns) :
        Cardinality(Range(ns[k].connections)) = Len(ns[k].connections)

\* the edges of a node list: <<i, j>> when j is among the connections of i
EdgesOf(ns) ==
    UNION {{<<i, c>> : c \in Range(At(ns, i).connections)} : i \in Indices(ns)}

\* the index of node j once the node at k is gone
Renumbered(j, k) == IF j > k THEN j - 1 ELSE j

RemovalKeepsEdges(before, k, after) ==
    /\ Len(after) = Len(before) - 1
    /\ [i \in 1 .. Len(after) |-> after[i].addr] =
         [i \in 1 .. Len(before) - 1 |->
             before[IF i - 1 < k THEN i ELSE i + 1].addr]
    /\ InRange(after)
    /\ EdgesOf(after) =
         {<<Renumbered(e[1], k), Renumbered(e[2], k)>> :
             e \in {p \in EdgesOf(before) : p[1] # k /\ p[2] # k}}

\* C10 (as claimed): after remove_node(nodes, k) on a list with unique
\* addresses and in-range connections, repeats allowed, the list is the old
\* one without node k, every connection is in range, and the edges are the
\* old edges that do not touch k, renumbered.
C10_RemoveNodeKeepsEdges ==
    (call.op = "remove_node" /\ UniqueAddrs(call.before) /\ InRange(call.before))
        => RemovalKeepsEdges(call.before, call.node_idx, nodes_vec)

\* What remove_node does keep: the same, for connections without repeats.
RemoveNodeKeepsEdgesWithoutRepeats ==
    (/\ call.op = "remove_node"
     /\ UniqueAddrs(call.before)
     /\ InRange(call.before)
     /\ NoRepeats(call.before))
        => RemovalKeepsEdges(call.before, call.node_idx, nodes_vec)

(***************************************************************************)
(* Claims about filter_network, checked under SpecFilter.                  *)
(***************************************************************************)
\* the addresses a node's connections denote, in order
PeerAddrs(ns, node) ==
    [c \in 1 .. Len(node.connections) |-> At(ns, node.connections[c]).addr]

\* the nodes of the network, in order, each with the addresses of its
\* connections to nodes of the network
Survivors(ns, network) ==
    LET kept == SelectSeq(ns, LAMBDA x : x.network_type = network)
        keptAddrs == {kept[k].addr : k \in 1 .. Len(kept)}
    IN  [k \in 1 .. Len(kept) |->
            [addr |-> kept[k].addr,
             network_type |-> kept[k].network_type,
             peers |-> SelectSeq(PeerAddrs(ns, kept[k]),
                                 LAMBDA a : a \in keptAddrs)]]

FilterKeepsNetwork(before, network, after) ==
    /\ InRange(after)
    /\ [k \in 1 .. Len(after) |->
            [addr |-> after[k].addr,
             network_type |-> after[k].network_type,
             peers |-> PeerAddrs(after, after[k])]]
         = Survivors(before, network)

\* C11 (as claimed): for a node list with unique addresses and in-range
\* connections, filter_network(nodes, T) returns the nodes of network T in
\* their order, with every connection in range and denoting the surviving
\* node it denoted before; the input list is unchanged.
C11_FilterKeepsNetwork ==
    (call.op = "filter_network" /\ UniqueAddrs(nodes_vec) /\ InRange(nodes_vec))
        => FilterKeepsNetwork(nodes_vec, call.network, result)

\* What filter_network does keep: the same, for connections without repeats.
FilterKeepsNetworkWithoutRepeats ==
    (/\ call.op = "filter_network"
     /\ UniqueAddrs(nodes_vec)
     /\ InRange(nodes_vec)
     /\ NoRepeats(nodes_vec))
        => FilterKeepsNetwork(nodes_vec, call.network, result)

FilterTestReached ==
    /\ call.op = "filter_network"
    /\ nodes_vec = FilterTestNodes
    /\ call.network = "Zcash"
    /\ Len(result) = 3

(***************************************************************************)
(* Claims about NormalizationFactors, checked under SpecNormalize.         *)
(***************************************************************************)
\* x <= y for finite x and y
F64Leq(x, y) == ~F64Less(y, x)

Least(S) == CHOOSE x \in S : \A y \in S : x <= y

Greatest(S) == CHOOSE x \in S : \A y \in S : x >= y

\* C12: for a non-empty sample list, determine returns the least and the
\* greatest sample; scale on these factors maps every sample of the list
\* into [0, 1], the least to 0 and the greatest to 1, when max > min, and
\* maps every value to 0 when min = max.
C12_NormalizationScales ==
    /\ call.op = "determine" =>
          result = [min |-> Least(Range(call.list)),
                    max |-> Greatest(Range(call.list))]
    /\ call.op = "scale" =>
          IF call.factors.max > call.factors.min
          THEN call.value \in Range(call.list) =>
                  /\ F64Leq(F64_ZERO, result) /\ F64Leq(result, F64FromInt(1))
                  /\ call.value = call.factors.min => result = F64_ZERO
                  /\ call.value = call.factors.max => result = F64FromInt(1)
          ELSE result = F64_ZERO

\* a sample strictly between the least and the greatest has been scaled
C12_Witness ==
    /\ call.op = "scale"
    /\ call.factors.min < call.value /\ call.value < call.factors.max
    /\ call.value \in Range(call.list)
    /\ F64Less(F64_ZERO, result) /\ F64Less(result, F64FromInt(1))

\* the cases of the tests: [1, 5] scales 3 to 1/2, equal factors scale to 0
ScaleTestsReached ==
    /\ call.op = "scale"
    /\ \/ /\ call.list = DetermineTestList
          /\ call.value = 3
          /\ result = F64DivInt(1, 2)
       \/ /\ call.factors = [min |-> 2, max |-> 2]
          /\ call.value = 3
          /\ result = F64_ZERO

(***************************************************************************)
(* Claims about graph_utils::construct_graph, checked under SpecGraph.     *)
(***************************************************************************)
AddrsOf(ns) == {ns[k].addr : k \in 1 .. Len(ns)}

\* a connection of the node that is within the list
HasUsableConnection(ns, node) ==
    \E c \in Range(node.connections) : c < Len(ns)

\* C13 (as claimed): for every node list, connections past the end of the
\* list included, every node's address is an endpoint of an edge of the
\* reconstructed graph, and no edge has an endpoint outside the list.
C13_EveryNodeHasEntry ==
    call.op = "construct_graph" =>
        /\ \A k \in 1 .. Len(nodes_vec) : nodes_vec[k].addr \in Vertices(result)
        /\ Vertices(result) \subseteq AddrsOf(nodes_vec)

\* What construct_graph does give: an entry to every node without
\* connections or with a connection within the list, and no edge to an
\* address outside the list.
EntryForUsableNodes ==
    call.op = "construct_graph" =>
        /\ \A k \in 1 .. Len(nodes_vec) :
              (nodes_vec[k].connections = <<>>
                  \/ HasUsableConnection(nodes_vec, nodes_vec[k]))
                 => nodes_vec[k].addr \in Vertices(result)
        /\ Vertices(result) \subseteq AddrsOf(nodes_vec)

(***************************************************************************)
(* Claims about the change counts, checked under SpecChange.               *)
(***************************************************************************)
WideLeq(a, b) == ~WideLess(b, a)

IsU32(w) == w[1] \in 0 .. Limb - 1 /\ w[2] \in 0 .. Limb - 1

\* d is (avg + degree) / 2 rounded to the nearest whole number, halves
\* upwards: 2 d <= avg + degree + 1 < 2 (d + 1), in units of 1 / avg[2]
IsRoundedMean(d, avg, degree) ==
    LET twice == WideAdd(WideAdd(avg[1], WideMulSmall(degree, avg[2])),
                         U32(avg[2]))
    IN  /\ WideLeq(WideMulSmall(d, 2 * avg[2]), twice)
        /\ WideLess(twice, WideMulSmall(WideAdd(d, U32(1)), 2 * avg[2]))

\* to_delete and to_add as whole numbers, without a width
ExactToDelete(cfg, d, degree) ==
    IF WideLess(d, degree) THEN WideSub(degree, d) ELSE cfg.change_at_least

ExactToAdd(cfg, d, degree) ==
    IF WideLess(degree, d)
    THEN WideAdd(WideSub(d, degree), ExactToDelete(cfg, d, degree))
    ELSE cfg.change_at_least

\* C14: d* is the mean of the average degree and deg(u), rounded with
\* halves away from zero; to_delete is deg(u) - d* when d* < deg(u) and
\* change_at_least otherwise; to_add is (d* - deg(u)) + to_delete when
\* d* > deg(u) and change_at_least otherwise, capped to change_no_more; only
\* to_add is capped, and every value stays a 32-bit unsigned number.
C14_ChangeCounts ==
    call.op = "change_counts" =>
        LET d   == result.desired_degree
            add == ExactToAdd(call.cfg, d, call.degree)
        IN  /\ IsRoundedMean(d, call.degree_avg, call.degree)
            /\ result.peers_to_delete_count =
                  ExactToDelete(call.cfg, d, call.degree)
            /\ result.peers_to_add_count =
                  (IF WideLess(call.cfg.change_no_more, add)
                   THEN call.cfg.change_no_more ELSE add)
            /\ IsU32(d)
            /\ IsU32(result.peers_to_delete_count)
            /\ IsU32(result.peers_to_add_count)

\* C14's case: the node is to grow, (d* - deg(u)) + to_delete is past
\* u32::MAX, and to_add came out as change_no_more
C14_Witness ==
    /\ call.op = "change_counts"
    /\ WideLess(call.degree, result.desired_degree)
    /\ WideLess(U32_MAX,
                ExactToAdd(call.cfg, result.desired_degree, call.degree))
    /\ result.peers_to_add_count = call.cfg.change_no_more

\* the node is to shrink by more than change_no_more: to_delete is not capped
UncappedDeleteReached ==
    /\ call.op = "change_counts"
    /\ WideLess(result.desired_degree, call.degree)
    /\ WideLess(call.cfg.change_no_more, result.peers_to_delete_count)

\* a half is rounded upwards
HalfRoundedReached ==
    /\ call.op = "change_counts"
    /\ call.degree = U32(2)
    /\ call.degree_avg = <<U32(1), 1>>
    /\ result.desired_degree = U32(2)

(***************************************************************************)
(* Claims about candidate selection, checked under SpecSelect.             *)
(***************************************************************************)
\* the nodes other than u whose address is not among u's current peers
Eligible(nodes, ag, u) ==
    {i \in Indices(nodes) \ {u} :
        \A j \in Range(At(ag, u)) : IpOf(nodes, j) # IpOf(nodes, i)}

\* the nodes whose addresses an iteration appended
Appended(nodes, it) ==
    {i \in Indices(nodes) : Contains(it.added, IpOf(nodes, i))}

\* the rating of node i in an iteration
RatingIn(it, i) ==
    (CHOOSE e \in Range(it.peer_ratings) : e.index = i).rating

\* P is a choice of the size highest-rated nodes of E
HighestRated(it, P, E, size) ==
    /\ P \subseteq E
    /\ Cardinality(P) = size
    /\ \A p \in P : \A q \in E \ P : F64Leq(RatingIn(it, q), RatingIn(it, p))

\* no node of P outside A has strictly lower betweenness than one of A
LowestBetweenness(nodes, A, P) ==
    /\ A \subseteq P
    /\ \A p \in P \ A : \A a \in A :
          ~(At(nodes, p).betweenness < At(nodes, a).betweenness)

SelectsFromPool(nodes, ag, it) ==
    LET E == Eligible(nodes, ag, it.node_idx)
        A == Appended(nodes, it)
    IN  /\ Len(it.added) = Clip(it.peers_to_add_count, Cardinality(E))
        /\ Cardinality(A) = Len(it.added)
        /\ \E P \in SUBSET E :
              /\ HighestRated(it, P, E,
                              Clip(WideMulSmall(it.peers_to_add_count, 2),
                                   Cardinality(E)))
              /\ LowestBetweenness(nodes, A, P)

\* C15 (as claimed): for every node u, exactly min(to_add, eligible)
\* addresses are appended, every appended node is among the
\* min(2 * to_add, eligible) highest-rated eligible nodes, and no node of
\* that pool that was left out has strictly lower betweenness than an
\* appended one.
C15_SelectsFromPool ==
    \A k \in 1 .. Len(iterations) :
        SelectsFromPool(state_nodes, agraph, iterations[k])

\* What the selection does give: the same, for to_add below 2^31.
SelectsFromPoolBelowHalfRange ==
    \A k \in 1 .. Len(iterations) :
        ~DoubleOverflows(iterations[k].peers_to_add_count)
            => SelectsFromPool(state_nodes, agraph, iterations[k])

\* a pool smaller than the eligible nodes has been cut to to_add additions
PoolTruncationReached ==
    \E k \in 1 .. Len(iterations) :
        LET it == iterations[k]
        IN  /\ Len(it.pool) < Cardinality(Eligible(state_nodes, agraph,
                                                   it.node_idx))
            /\ Len(it.added) < Len(it.pool)
            /\ Len(it.added) > 0

\* with overflow checks, the product of ips.rs 236 ends the run
DoublePanicReached ==
    /\ pc = "panicked"
    /\ const_factors # <<>>
    /\ engine.overflow_checks

\* the position of node i in a sequence of rating entries, 0 if absent
PositionIn(entries, i) ==
    IF \E k \in 1 .. Len(entries) : entries[k].index = i
    THEN CHOOSE k \in 1 .. Len(entries) : entries[k].index = i
    ELSE 0

\* node i comes before node j in the entries, or j is not among them
Precedes(entries, i, j) ==
    PositionIn(entries, j) # 0 =>
        (PositionIn(entries, i) # 0
            /\ PositionIn(entries, i) < PositionIn(entries, j))

\* the candidates whose addresses were appended, in the order of appending
AppendedEntries(it) == SubSeq(it.candidates, 1, Len(it.added))

\* among eligible nodes with equal rating, the lower index enters the pool
\* first
RatingTiesByInputOrder(nodes, ag, it) ==
    \A i \in Eligible(nodes, ag, it.node_idx) :
        \A j \in Eligible(nodes, ag, it.node_idx) :
            (i < j /\ RatingIn(it, i) = RatingIn(it, j))
                => Precedes(it.pool, i, j)

\* among pool candidates with equal betweenness, the lower index is
\* appended first
BetweennessTiesByInputOrder(nodes, it) ==
    \A a \in Range(it.pool) : \A b \in Range(it.pool) :
        (a.index < b.index
            /\ At(nodes, a.index).betweenness = At(nodes, b.index).betweenness)
            => Precedes(AppendedEntries(it), a.index, b.index)

\* among pool candidates with equal betweenness, the one that comes first
\* in the pool (the higher-rated one) is appended first
BetweennessTiesByPoolOrder(nodes, it) ==
    \A a \in Range(it.pool) : \A b \in Range(it.pool) :
        (PositionIn(it.pool, a.index) < PositionIn(it.pool, b.index)
            /\ At(nodes, a.index).betweenness = At(nodes, b.index).betweenness)
            => Precedes(AppendedEntries(it), a.index, b.index)

\* C16 (as claimed): ties in both selection sorts go to the lower snapshot
\* index: among eligible nodes with equal rating the lower index enters the
\* pool first, and among pool candidates with equal betweenness the lower
\* index is appended first, whatever their ratings.
C16_TiesByInputOrder ==
    \A k \in 1 .. Len(iterations) :
        /\ RatingTiesByInputOrder(state_nodes, agraph, iterations[k])
        /\ BetweennessTiesByInputOrder(state_nodes, iterations[k])

\* What the sorts do give: rating ties go to the lower index, betweenness
\* ties to the candidate that comes first in the pool.
TiesByPoolOrder ==
    \A k \in 1 .. Len(iterations) :
        /\ RatingTiesByInputOrder(state_nodes, agraph, iterations[k])
        /\ BetweennessTiesByPoolOrder(state_nodes, iterations[k])

\* a rating tie at the edge of the pool: of two eligible nodes with equal
\* rating only the lower index is in the pool
RatingTieReached ==
    \E k \in 1 .. Len(iterations) :
        LET it == iterations[k]
            E  == Eligible(state_nodes, agraph, it.node_idx)
        IN  \E i \in E : \E j \in E :
               /\ i < j
               /\ RatingIn(it, i) = RatingIn(it, j)
               /\ PositionIn(it.pool, i) # 0
               /\ PositionIn(it.pool, j) = 0

(***************************************************************************)
(* Claims about the threshold of find_bridges, checked under SpecBridges.  *)
(***************************************************************************)
\* u lists v among its connections, or v lists u
Joined(ns, u, v) ==
    \/ Contains(At(ns, u).connections, v)
    \/ Contains(At(ns, v).connections, u)

\* the betweenness of node u is strictly above the threshold
Exceeds(ns, threshold, u) == RatLess(threshold, RatInt(At(ns, u).betweenness))

\* the betweenness of node u is the threshold or above
Reaches(ns, threshold, u) == ~RatLess(RatInt(At(ns, u).betweenness), threshold)

\* C17 (as claimed): with T the median betweenness times the adjustment, v is
\* in bridges[u] exactly when a connection joins u and v, in either
\* direction, and the betweenness of both is strictly above T; a node whose
\* betweenness equals T is the endpoint of no bridge; in the scenario of 8
\* nodes with adjustment 1.25, bridges[3] = {4}.
C17_BothEndpointsExceed ==
    (call.op = "find_bridges" /\ Len(nodes_vec) >= 2) =>
        LET T == BetweennessThreshold(nodes_vec, call.threshold_adjustment)
        IN  /\ \A u \in Indices(nodes_vec) : \A v \in Indices(nodes_vec) :
                  v \in BridgesOf(result, u) <=>
                      /\ Joined(nodes_vec, u, v)
                      /\ Exceeds(nodes_vec, T, u)
                      /\ Exceeds(nodes_vec, T, v)
            /\ (nodes_vec = BridgesTestNodes
                    /\ call.threshold_adjustment = Rat(5, 4))
                  => BridgesOf(result, 3) = {4}

\* What find_bridges does record: a connection from a node at or above T to
\* a peer strictly above T, under both of them.
BridgesFromReachingToExceeding ==
    (call.op = "find_bridges" /\ Len(nodes_vec) >= 2) =>
        LET T == BetweennessThreshold(nodes_vec, call.threshold_adjustment)
        IN  \A u \in Indices(nodes_vec) : \A v \in Indices(nodes_vec) :
               v \in BridgesOf(result, u) <=>
                   \/ /\ Contains(At(nodes_vec, u).connections, v)
                      /\ Reaches(nodes_vec, T, u)
                      /\ Exceeds(nodes_vec, T, v)
                   \/ /\ Contains(At(nodes_vec, v).connections, u)
                      /\ Reaches(nodes_vec, T, v)
                      /\ Exceeds(nodes_vec, T, u)

\* the scenario of the test: bridges[3] = {4}
BridgesTestReached ==
    /\ call.op = "find_bridges"
    /\ nodes_vec = BridgesTestNodes
    /\ call.threshold_adjustment = Rat(5, 4)
    /\ BridgesOf(result, 3) = {4}

(***************************************************************************)
(* Claims about selection with all weights zero, checked under SpecSelect. *)
(***************************************************************************)
AllWeightsZero(cfg) ==
    /\ cfg.mcda_weights.degree = 0
    /\ cfg.mcda_weights.betweenness = 0
    /\ cfg.mcda_weights.closeness = 0
    /\ cfg.mcda_weights.eigenvector = 0
    /\ cfg.mcda_weights.location = 0

\* a rating that the rounding of its terms has put below 100
RoundedRatingReached ==
    /\ pc = "done"
    /\ config.mcda_weights = RoundingProfile.weights
    /\ At(const_factors, 0).rating = F64FromInt(100)
    /\ At(const_factors, 3).rating = F64FromInt(100)
    /\ F64Less(At(const_factors, 1).rating, F64FromInt(100))
    /\ At(const_factors, 2).rating = At(const_factors, 1).rating

AllRatingsZero(it) == \A e \in Range(it.peer_ratings) : e.rating = F64_ZERO

\* the nodes of the pool of an iteration
PoolOf(it) == {e.index : e \in Range(it.pool)}

\* no eligible node that was not appended has strictly lower betweenness
\* than an appended one, and min(to_add, eligible) nodes are appended
LowestOfEligible(nodes, ag, it) ==
    LET E == Eligible(nodes, ag, it.node_idx)
    IN  /\ Len(it.added) = Clip(it.peers_to_add_count, Cardinality(E))
        /\ LowestBetweenness(nodes, Appended(nodes, it), E)

\* the pool is the first eligible nodes in snapshot order, at most
\* 2 * to_add of them; min(to_add, pool) nodes are appended, and no node of
\* the pool that was not appended has strictly lower betweenness than an
\* appended one
LowestOfPool(nodes, ag, it) ==
    LET E == Ascending(Eligible(nodes, ag, it.node_idx))
    IN  /\ Len(it.pool) <= Len(E)
        /\ [k \in 1 .. Len(it.pool) |-> it.pool[k].index] =
             SubSeq(E, 1, Len(it.pool))
        /\ WideLeq(U32(Len(it.pool)), WideMulSmall(it.peers_to_add_count, 2))
        /\ Len(it.added) = Clip(it.peers_to_add_count, Len(it.pool))
        /\ Cardinality(Appended(nodes, it)) = Len(it.added)
        /\ LowestBetweenness(nodes, Appended(nodes, it), PoolOf(it))

\* C18 (as claimed): with all weights zero every rating is 0 and, for every
\* node u, the appended addresses are the min(to_add, eligible)
\* lowest-betweenness eligible nodes: no eligible node that was not appended
\* has strictly lower betweenness than an appended one.
C18_LowestBetweennessOfEligible ==
    AllWeightsZero(config) =>
        \A k \in 1 .. Len(iterations) :
            /\ AllRatingsZero(iterations[k])
            /\ LowestOfEligible(state_nodes, agraph, iterations[k])

\* C18 (amended): with all weights zero every rating is 0, the pool of node
\* u is made of the first eligible nodes in snapshot order, at most
\* 2 * to_add of them, and the appended addresses are the min(to_add, pool)
\* lowest-betweenness nodes of the pool.
C18_LowestBetweennessOfPool ==
    AllWeightsZero(config) =>
        \A k \in 1 .. Len(iterations) :
            /\ AllRatingsZero(iterations[k])
            /\ LowestOfPool(state_nodes, agraph, iterations[k])

\* C18's case: all weights are zero, and an eligible node outside the pool
\* has strictly lower betweenness than an appended node
C18_Witness ==
    /\ AllWeightsZero(config)
    /\ \E k \in 1 .. Len(iterations) :
          LET it == iterations[k]
          IN  \E i \in Eligible(state_nodes, agraph, it.node_idx) \ PoolOf(it) :
                 \E a \in Appended(state_nodes, it) :
                    At(state_nodes, i).betweenness
                        < At(state_nodes, a).betweenness

====
